---------------------------- MODULE Spec2Model ----------------------------
(***************************************************************************)
(* Model of src/convert.go: the bounded FIFO cache (Cache, NewCache, Get,  *)
(* Set), the binary/hex codec (binToHex, hexToBin) and the line pipeline   *)
(* (main, convertWithCache, convertWithoutCache).                          *)
(*                                                                         *)
(* A Go string is modelled as a sequence of bytes (numbers 0..255), so     *)
(* that the byte arithmetic of binToHex (binStr[i+j] - '0', <<, |) is the  *)
(* arithmetic of the code.  Sequences are 1-based: Go's s[i] is s[i+1].    *)
(***************************************************************************)
EXTENDS Integers, Sequences, FiniteSets, TLC

VARIABLES
    cache,       \* the *Cache: [maxEntries, entries, keys]
    panicked,    \* TRUE once a call has ended in a runtime panic
    last,        \* the last call made on the cache, with what it returned
    setLog,      \* history: the Set calls made so far, in order
    insertedAt,  \* history: for each key, the index in setLog of the Set call that stored it last
    input,       \* codec: the string handed to the first conversion
    stage,       \* codec: which conversions have been applied
    first,       \* codec: result of the first conversion
    second,      \* codec: result of the second conversion (applied to first.out)
    args,        \* pipeline: os.Args as main reads it: [nargs, mode, size]
    pc,          \* pipeline: where the process is
    handles,     \* pipeline: the two files' handles and the deferred Close calls
    scanned,     \* pipeline, history: one record per line the scanner returned
    written,     \* pipeline: the lines the writer accepted, in order
    writerErr,   \* pipeline: TRUE once a write or the flush has failed
    ret,         \* pipeline: the error convertWithCache/convertWithoutCache returned
    exitCode,    \* pipeline: the process's exit status (-1 while it runs)
    stdout       \* pipeline: what main printed, by kind

cacheVars == <<cache, panicked, last, setLog, insertedAt>>
codecVars == <<input, stage, first, second>>
pipeVars == <<args, pc, handles, scanned, written, writerErr, ret, exitCode, stdout>>
vars == <<cache, panicked, last, setLog, insertedAt, input, stage, first, second,
          args, pc, handles, scanned, written, writerErr, ret, exitCode, stdout>>

---------------------------------------------------------------------------
(* Bounds of the model *)

MaxCap == 2        \* capacities 0..MaxCap
NumKeys == 3       \* keys 1..NumKeys
MaxSets == 4       \* at most MaxSets Set calls in a run
MaxBits == 16      \* bit strings of length 0..MaxBits
MaxShort == 2      \* strings over AllChars of length 0..MaxShort
MaxSample == 4     \* strings over SampleChars of length 0..MaxSample

Keys == 1..NumKeys
Values == {"v1", "v2"}

SeqsUpTo(S, n) == UNION {[1..k -> S] : k \in 0..n}

---------------------------------------------------------------------------
(* The cache: src/convert.go lines 13-45 *)

EmptyMap == [k \in {} |-> "v1"]

NewCache(maxEntries) ==
    [maxEntries |-> maxEntries, entries |-> EmptyMap, keys |-> <<>>]

\* (val, exists) of c.entries[key]; a missing key yields Go's zero value "".
CacheGet(c, key) ==
    IF key \in DOMAIN c.entries
    THEN [val |-> c.entries[key], found |-> TRUE]
    ELSE [val |-> "", found |-> FALSE]

MapDelete(m, key) == [k \in (DOMAIN m) \ {key} |-> m[k]]

MapPut(m, key, value) ==
    [k \in (DOMAIN m) \cup {key} |-> IF k = key THEN value ELSE m[k]]

\* Set without the eviction's boundary case: > for >=.
CacheSetOffByOne(c, key, value) ==
    IF key \in DOMAIN c.entries
    THEN [cache |-> c, panic |-> FALSE]
    ELSE IF Cardinality(DOMAIN c.entries) > c.maxEntries
         THEN IF Len(c.keys) = 0
              THEN [cache |-> c, panic |-> TRUE]
              ELSE [cache |-> [c EXCEPT !.keys = Append(Tail(c.keys), key),
                                        !.entries = MapPut(MapDelete(c.entries, Head(c.keys)), key, value)],
                    panic |-> FALSE]
         ELSE [cache |-> [c EXCEPT !.keys = Append(c.keys, key),
                                   !.entries = MapPut(c.entries, key, value)],
               panic |-> FALSE]

\* Set that forgets delete(c.entries, oldestKey).
CacheSetNoDelete(c, key, value) ==
    IF key \in DOMAIN c.entries
    THEN [cache |-> c, panic |-> FALSE]
    ELSE IF Cardinality(DOMAIN c.entries) >= c.maxEntries
         THEN IF Len(c.keys) = 0
              THEN [cache |-> c, panic |-> TRUE]
              ELSE [cache |-> [c EXCEPT !.keys = Append(Tail(c.keys), key),
                                        !.entries = MapPut(c.entries, key, value)],
                    panic |-> FALSE]
         ELSE [cache |-> [c EXCEPT !.keys = Append(c.keys, key),
                                   !.entries = MapPut(c.entries, key, value)],
               panic |-> FALSE]

\* Set that evicts the newest key instead of the oldest.
CacheSetEvictNewest(c, key, value) ==
    IF key \in DOMAIN c.entries
    THEN [cache |-> c, panic |-> FALSE]
    ELSE IF Cardinality(DOMAIN c.entries) >= c.maxEntries
         THEN IF Len(c.keys) = 0
              THEN [cache |-> c, panic |-> TRUE]
              ELSE [cache |-> [c EXCEPT !.keys = Append(SubSeq(c.keys, 1, Len(c.keys) - 1), key),
                                        !.entries = MapPut(MapDelete(c.entries, c.keys[Len(c.keys)]), key, value)],
                    panic |-> FALSE]
         ELSE [cache |-> [c EXCEPT !.keys = Append(c.keys, key),
                                   !.entries = MapPut(c.entries, key, value)],
               panic |-> FALSE]

\* Set that overwrites the value of a key already present.
CacheSetOverwrite(c, key, value) ==
    IF key \in DOMAIN c.entries
    THEN [cache |-> [c EXCEPT !.entries = MapPut(c.entries, key, value)], panic |-> FALSE]
    ELSE IF Cardinality(DOMAIN c.entries) >= c.maxEntries
         THEN IF Len(c.keys) = 0
              THEN [cache |-> c, panic |-> TRUE]
              ELSE [cache |-> [c EXCEPT !.keys = Append(Tail(c.keys), key),
                                        !.entries = MapPut(MapDelete(c.entries, Head(c.keys)), key, value)],
                    panic |-> FALSE]
         ELSE [cache |-> [c EXCEPT !.keys = Append(c.keys, key),
                                   !.entries = MapPut(c.entries, key, value)],
               panic |-> FALSE]

\* Cache.Set on cache c: the cache afterwards, and whether the call panicked.
\* c.keys[0] on an empty slice is an index-out-of-range panic, raised before
\* anything is written.
CacheSet(c, key, value) ==
    IF key \in DOMAIN c.entries
    THEN [cache |-> c, panic |-> FALSE]
    ELSE IF Cardinality(DOMAIN c.entries) >= c.maxEntries
         THEN IF Len(c.keys) = 0
              THEN [cache |-> c, panic |-> TRUE]
              ELSE [cache |-> [c EXCEPT !.keys = Append(Tail(c.keys), key),
                                        !.entries = MapPut(MapDelete(c.entries, Head(c.keys)), key, value)],
                    panic |-> FALSE]
         ELSE [cache |-> [c EXCEPT !.keys = Append(c.keys, key),
                                   !.entries = MapPut(c.entries, key, value)],
               panic |-> FALSE]

NoCall == [op |-> "none", key |-> 0, value |-> "", val |-> "", found |-> FALSE]

\* A Get that refreshes the key's position, as an LRU cache would.
GetTouch(key) ==
    /\ ~panicked
    /\ last' = [op |-> "Get", key |-> key, value |-> "",
                val |-> CacheGet(cache, key).val, found |-> CacheGet(cache, key).found]
    /\ cache' = IF key \in DOMAIN cache.entries
                THEN [cache EXCEPT !.keys =
                        Append(SelectSeq(cache.keys, LAMBDA k : k # key), key)]
                ELSE cache
    /\ UNCHANGED <<panicked, setLog, insertedAt>>
    /\ UNCHANGED codecVars
    /\ UNCHANGED pipeVars

\* A call of c.Get(key).
Get(key) ==
    /\ ~panicked
    /\ last' = [op |-> "Get", key |-> key, value |-> "",
                val |-> CacheGet(cache, key).val, found |-> CacheGet(cache, key).found]
    /\ UNCHANGED <<cache, panicked, setLog, insertedAt>>
    /\ UNCHANGED codecVars
    /\ UNCHANGED pipeVars

\* A call of c.Set(key, value).
Set(key, value) ==
    /\ ~panicked
    /\ Len(setLog) < MaxSets
    /\ cache' = CacheSet(cache, key, value).cache
    /\ panicked' = CacheSet(cache, key, value).panic
    /\ last' = [op |-> "Set", key |-> key, value |-> value, val |-> "", found |-> FALSE]
    /\ setLog' = Append(setLog, [key |-> key, value |-> value])
    /\ insertedAt' = IF key \in DOMAIN cache.entries \/ CacheSet(cache, key, value).panic
                     THEN insertedAt
                     ELSE [insertedAt EXCEPT ![key] = Len(setLog) + 1]
    /\ UNCHANGED codecVars
    /\ UNCHANGED pipeVars

CodecIdle ==
    /\ input = <<>>
    /\ stage = "idle"
    /\ first = [out |-> <<>>, err |-> "pending"]
    /\ second = [out |-> <<>>, err |-> "pending"]

NoArgs == [nargs |-> 0, mode |-> "", size |-> [ok |-> FALSE, n |-> 0]]

NoHandles == [input |-> "none", output |-> "none", defers |-> <<>>]

PipeIdle ==
    /\ args = NoArgs
    /\ pc = "idle"
    /\ handles = NoHandles
    /\ scanned = <<>>
    /\ written = <<>>
    /\ writerErr = FALSE
    /\ ret = "none"
    /\ exitCode = -1
    /\ stdout = <<>>

Init ==
    /\ cache \in {NewCache(n) : n \in 0..MaxCap}
    /\ panicked = FALSE
    /\ last = NoCall
    /\ setLog = <<>>
    /\ insertedAt = [k \in Keys |-> 0]
    /\ CodecIdle
    /\ PipeIdle

Next ==
    \/ \E key \in Keys, value \in Values : Set(key, value)
    \/ \E key \in Keys : Get(key)

Spec == Init /\ [][Next]_vars

---------------------------------------------------------------------------
(* The codec: src/convert.go lines 47-71 *)

\* a | b on unsigned integers.
RECURSIVE BitOr(_, _)
BitOr(a, b) ==
    IF a = 0 THEN b
    ELSE IF b = 0 THEN a
    ELSE (IF a % 2 = 1 \/ b % 2 = 1 THEN 1 ELSE 0) + 2 * BitOr(a \div 2, b \div 2)

\* The inner loop of binToHex from index j on group i (0-based, as in the code):
\*   binByte = binByte<<1 | (binStr[i+j] - '0')       on type byte (mod 256)
RECURSIVE BinByteLoop(_, _, _, _)
BinByteLoop(binStr, i, j, binByte) ==
    IF j < 8 /\ i + j < Len(binStr)
    THEN BinByteLoop(binStr, i, j + 1,
                     BitOr((binByte * 2) % 256, (binStr[i + j + 1] - 48) % 256))
    ELSE binByte

\* binBytes after the outer loop: (len+7)/8 bytes, binBytes[i/8] for i = 0, 8, ...
BinBytes(binStr) ==
    [g \in 1..((Len(binStr) + 7) \div 8) |-> BinByteLoop(binStr, 8 * (g - 1), 0, 0)]

\* "0123456789abcdef", the digits hex.EncodeToString writes.
HexTable == <<48, 49, 50, 51, 52, 53, 54, 55, 56, 57, 97, 98, 99, 100, 101, 102>>

\* hex.EncodeToString: two lower-case hex digits per byte, high nibble first.
EncodeToString(bytes) ==
    [k \in 1..(2 * Len(bytes)) |->
        IF k % 2 = 1
        THEN HexTable[(bytes[(k + 1) \div 2] \div 16) + 1]
        ELSE HexTable[(bytes[k \div 2] % 16) + 1]]

\* strings.ToUpper on ASCII: 'a'..'z' become 'A'..'Z'.
ToUpper(s) == [k \in 1..Len(s) |-> IF s[k] \in 97..122 THEN s[k] - 32 ELSE s[k]]

\* binToHex without strings.ToUpper.
binToHexLower(binStr) ==
    [out |-> EncodeToString(BinBytes(binStr)), err |-> "nil"]

\* binToHex(binStr): the error returned is always nil.
binToHex(binStr) ==
    [out |-> ToUpper(EncodeToString(BinBytes(binStr))), err |-> "nil"]

\* The value of a hex digit, 255 for any other byte (hex.Decode's reverse table).
FromHexChar(c) ==
    IF c \in 48..57 THEN c - 48
    ELSE IF c \in 97..102 THEN c - 87
    ELSE IF c \in 65..70 THEN c - 55
    ELSE 255

\* hex.DecodeString's loop over the pairs from pair p on (1-based), with the
\* bytes decoded so far: the first invalid digit ends it with InvalidByteError,
\* an odd length (with a valid last digit) with ErrLength.
RECURSIVE DecodeLoop(_, _, _)
DecodeLoop(src, p, bytes) ==
    IF 2 * p <= Len(src)
    THEN IF FromHexChar(src[2 * p - 1]) > 15 \/ FromHexChar(src[2 * p]) > 15
         THEN [bytes |-> bytes, err |-> "InvalidByteError"]
         ELSE DecodeLoop(src, p + 1,
                         Append(bytes, 16 * FromHexChar(src[2 * p - 1]) + FromHexChar(src[2 * p])))
    ELSE IF Len(src) % 2 = 1
         THEN IF FromHexChar(src[Len(src)]) > 15
              THEN [bytes |-> bytes, err |-> "InvalidByteError"]
              ELSE [bytes |-> bytes, err |-> "ErrLength"]
         ELSE [bytes |-> bytes, err |-> "nil"]

DecodeString(src) == DecodeLoop(src, 1, <<>>)

\* The binary digits of n, most significant first, without leading zeros ("%b").
RECURSIVE BinDigits(_)
BinDigits(n) ==
    IF n < 2 THEN <<48 + n>> ELSE Append(BinDigits(n \div 2), 48 + (n % 2))

\* fmt.Sprintf("%08b", b): the digits, padded on the left with '0' to width 8.
Sprintf08b(b) ==
    [k \in 1..(8 - Len(BinDigits(b))) |-> 48] \o BinDigits(b)

RECURSIVE ConcatBytes(_)
ConcatBytes(bytes) ==
    IF bytes = <<>> THEN <<>> ELSE Sprintf08b(Head(bytes)) \o ConcatBytes(Tail(bytes))

RECURSIVE ConcatBytesUnpadded(_)
ConcatBytesUnpadded(bytes) ==
    IF bytes = <<>> THEN <<>> ELSE BinDigits(Head(bytes)) \o ConcatBytesUnpadded(Tail(bytes))

\* hexToBin with "%b" for "%08b".
hexToBinUnpadded(hexStr) ==
    IF DecodeString(hexStr).err # "nil"
    THEN [out |-> <<>>, err |-> DecodeString(hexStr).err]
    ELSE [out |-> ConcatBytesUnpadded(DecodeString(hexStr).bytes), err |-> "nil"]

\* hexToBin(hexStr)
hexToBin(hexStr) ==
    LET decoded == DecodeString(hexStr)
    IN IF decoded.err # "nil"
       THEN [out |-> <<>>, err |-> decoded.err]
       ELSE [out |-> ConcatBytes(decoded.bytes), err |-> "nil"]

(* The strings the conversions are applied to *)
BitChars == {48, 49}                                \* '0' '1'
HexChars == (48..57) \cup (65..70) \cup (97..102)   \* 0-9 A-F a-f
OtherChars == {47, 58, 64, 71, 96, 103}             \* '/' ':' '@' 'G' '`' 'g'
AllChars == HexChars \cup OtherChars
SampleChars == {48, 49, 50, 58, 70, 102}            \* '0' '1' '2' ':' 'F' 'f'

Inputs ==
    SeqsUpTo(BitChars, MaxBits) \cup SeqsUpTo(AllChars, MaxShort)
        \cup SeqsUpTo(SampleChars, MaxSample)

Pending == [out |-> <<>>, err |-> "pending"]

\* encode applied to the input
EncodeInput ==
    /\ stage = "start"
    /\ first' = binToHex(input)
    /\ stage' = "encoded"
    /\ UNCHANGED <<input, second>>
    /\ UNCHANGED cacheVars
    /\ UNCHANGED pipeVars

\* decode applied to what encode returned
DecodeEncoded ==
    /\ stage = "encoded"
    /\ first.err = "nil"
    /\ second' = hexToBin(first.out)
    /\ stage' = "encDec"
    /\ UNCHANGED <<input, first>>
    /\ UNCHANGED cacheVars
    /\ UNCHANGED pipeVars

\* decode applied to the input
DecodeInput ==
    /\ stage = "start"
    /\ first' = hexToBin(input)
    /\ stage' = "decoded"
    /\ UNCHANGED <<input, second>>
    /\ UNCHANGED cacheVars
    /\ UNCHANGED pipeVars

\* encode applied to what decode returned
EncodeDecoded ==
    /\ stage = "decoded"
    /\ first.err = "nil"
    /\ second' = binToHex(first.out)
    /\ stage' = "decEnc"
    /\ UNCHANGED <<input, first>>
    /\ UNCHANGED cacheVars
    /\ UNCHANGED pipeVars

CacheIdle ==
    /\ cache = NewCache(0)
    /\ panicked = FALSE
    /\ last = NoCall
    /\ setLog = <<>>
    /\ insertedAt = [k \in Keys |-> 0]

InitCodec ==
    /\ input \in Inputs
    /\ stage = "start"
    /\ first = Pending
    /\ second = Pending
    /\ CacheIdle
    /\ PipeIdle

NextCodec ==
    \/ EncodeInput
    \/ DecodeEncoded
    \/ DecodeInput
    \/ EncodeDecoded

SpecCodec == InitCodec /\ [][NextCodec]_vars

---------------------------------------------------------------------------
(* The line pipeline: src/convert.go lines 73-190 *)

MaxLines == 3            \* SpecPipe: the input file holds at most MaxLines lines
MaxHitLines == 5         \* SpecHits: the input file holds at most MaxHitLines lines
DefaultCacheSize == 5000

\* The lines an input file may hold:
\*   "4:01000001"  "1:1"  ":"  ""  "41"  "4:01:1"  "4:0102"
LinePool ==
    { <<52, 58, 48, 49, 48, 48, 48, 48, 48, 49>>,
      <<49, 58, 49>>,
      <<58>>,
      <<>>,
      <<52, 49>>,
      <<52, 58, 48, 49, 58, 49>>,
      <<52, 58, 48, 49, 48, 50>> }

Modes == {"compress-cached", "compress-noncached",
          "decompress-cached", "decompress-noncached", "other"}

\* What fmt.Sscanf(os.Args[4], "%d", &cacheSize) makes of the fifth argument:
\* a number, or a failure that leaves cacheSize as it was.
SizeArgs == {[ok |-> TRUE, n |-> k] : k \in (-1)..MaxCap} \cup {[ok |-> FALSE, n |-> 0]}

ArgLists ==
    {[nargs |-> 3, mode |-> m, size |-> [ok |-> FALSE, n |-> 0]] : m \in {"compress-cached"}}
      \cup {[nargs |-> 4, mode |-> m, size |-> [ok |-> FALSE, n |-> 0]] : m \in Modes}
      \cup {[nargs |-> 5, mode |-> m, size |-> z] : m \in Modes, z \in SizeArgs}

Cached(a) == a.mode \in {"compress-cached", "decompress-cached"}

NonCached(a) == a.mode \in {"compress-noncached", "decompress-noncached"}

\* cacheSize after lines 155-158
CacheSizeOf(a) == IF a.nargs >= 5 /\ a.size.ok THEN a.size.n ELSE DefaultCacheSize

\* strings.Split(s, ":"): the pieces between the ':' bytes, one more than there
\* are ':' in s.
RECURSIVE Split(_)
Split(s) ==
    IF \E i \in 1..Len(s) : s[i] = 58
    THEN LET i == CHOOSE i \in 1..Len(s) : s[i] = 58 /\ \A j \in 1..(i - 1) : s[j] # 58
         IN <<SubSeq(s, 1, i - 1)>> \o Split(SubSeq(s, i + 1, Len(s)))
    ELSE <<s>>

\* The deferred Close calls run, on return and on panic alike.
RunDefers(h) ==
    [input |-> IF \E i \in 1..Len(h.defers) : h.defers[i] = "input" THEN "closed" ELSE h.input,
     output |-> IF \E i \in 1..Len(h.defers) : h.defers[i] = "output" THEN "closed" ELSE h.output,
     defers |-> <<>>]

\* The record of one loop iteration: the line, whether the cache had it, whether
\* binToHex and Set were called, the two pieces handed on, and the runtime panic
\* that ended it ("none", "index" for parts[1], "set" for c.keys[0]).
Iteration(line, hit, encoded, setCalled, size, payload, fault) ==
    [line |-> line, hit |-> hit, encoded |-> encoded, setCalled |-> setCalled,
     size |-> size, payload |-> payload, fault |-> fault]

\* The loop body of convertWithoutCache (lines 130-140) on one line.
PlainStep(c, line) ==
    LET parts == Split(line)
    IN IF Len(parts) < 2
       THEN [cache |-> c, write |-> <<>>, err |-> "nil",
             rec |-> Iteration(line, FALSE, FALSE, FALSE, parts[1], <<>>, "index")]
       ELSE LET hex == binToHex(parts[2])
                newLine == parts[1] \o <<58>> \o hex.out
            IN IF hex.err # "nil"
               THEN [cache |-> c, write |-> <<>>, err |-> hex.err,
                     rec |-> Iteration(line, FALSE, TRUE, FALSE, parts[1], parts[2], "none")]
               ELSE [cache |-> c, write |-> <<newLine>>, err |-> "nil",
                     rec |-> Iteration(line, FALSE, TRUE, FALSE, parts[1], parts[2], "none")]

\* CachedStep that stores the hex string instead of the composed line.
CachedStepStoresHex(c, line) ==
    LET got == CacheGet(c, line)
        parts == Split(line)
    IN IF got.found
       THEN [cache |-> c, write |-> <<got.val>>, err |-> "nil",
             rec |-> Iteration(line, TRUE, FALSE, FALSE, <<>>, <<>>, "none")]
       ELSE IF Len(parts) < 2
       THEN [cache |-> c, write |-> <<>>, err |-> "nil",
             rec |-> Iteration(line, FALSE, FALSE, FALSE, parts[1], <<>>, "index")]
       ELSE LET hex == binToHex(parts[2])
                newLine == parts[1] \o <<58>> \o hex.out
                set == CacheSet(c, line, hex.out)
            IN IF hex.err # "nil"
               THEN [cache |-> c, write |-> <<>>, err |-> hex.err,
                     rec |-> Iteration(line, FALSE, TRUE, FALSE, parts[1], parts[2], "none")]
               ELSE IF set.panic
               THEN [cache |-> c, write |-> <<>>, err |-> "nil",
                     rec |-> Iteration(line, FALSE, TRUE, TRUE, parts[1], parts[2], "set")]
               ELSE [cache |-> set.cache, write |-> <<newLine>>, err |-> "nil",
                     rec |-> Iteration(line, FALSE, TRUE, TRUE, parts[1], parts[2], "none")]

\* CachedStep that writes nothing on a hit.
CachedStepHitSkipsWrite(c, line) ==
    LET got == CacheGet(c, line)
        parts == Split(line)
    IN IF got.found
       THEN [cache |-> c, write |-> <<>>, err |-> "nil",
             rec |-> Iteration(line, TRUE, FALSE, FALSE, <<>>, <<>>, "none")]
       ELSE IF Len(parts) < 2
       THEN [cache |-> c, write |-> <<>>, err |-> "nil",
             rec |-> Iteration(line, FALSE, FALSE, FALSE, parts[1], <<>>, "index")]
       ELSE LET hex == binToHex(parts[2])
                newLine == parts[1] \o <<58>> \o hex.out
                set == CacheSet(c, line, newLine)
            IN IF hex.err # "nil"
               THEN [cache |-> c, write |-> <<>>, err |-> hex.err,
                     rec |-> Iteration(line, FALSE, TRUE, FALSE, parts[1], parts[2], "none")]
               ELSE IF set.panic
               THEN [cache |-> c, write |-> <<>>, err |-> "nil",
                     rec |-> Iteration(line, FALSE, TRUE, TRUE, parts[1], parts[2], "set")]
               ELSE [cache |-> set.cache, write |-> <<newLine>>, err |-> "nil",
                     rec |-> Iteration(line, FALSE, TRUE, TRUE, parts[1], parts[2], "none")]

\* CachedStep that never calls cache.Set.
CachedStepNoSet(c, line) ==
    LET got == CacheGet(c, line)
        parts == Split(line)
    IN IF got.found
       THEN [cache |-> c, write |-> <<got.val>>, err |-> "nil",
             rec |-> Iteration(line, TRUE, FALSE, FALSE, <<>>, <<>>, "none")]
       ELSE IF Len(parts) < 2
       THEN [cache |-> c, write |-> <<>>, err |-> "nil",
             rec |-> Iteration(line, FALSE, FALSE, FALSE, parts[1], <<>>, "index")]
       ELSE LET hex == binToHex(parts[2])
                newLine == parts[1] \o <<58>> \o hex.out
            IN IF hex.err # "nil"
               THEN [cache |-> c, write |-> <<>>, err |-> hex.err,
                     rec |-> Iteration(line, FALSE, TRUE, FALSE, parts[1], parts[2], "none")]
               ELSE [cache |-> c, write |-> <<newLine>>, err |-> "nil",
                     rec |-> Iteration(line, FALSE, TRUE, FALSE, parts[1], parts[2], "none")]

\* The loop body of convertWithCache (lines 91-106) on one line: the cache
\* afterwards, the line handed to the writer, the error returned early, and the
\* iteration's record.
CachedStep(c, line) ==
    LET got == CacheGet(c, line)
        parts == Split(line)
    IN IF got.found
       THEN [cache |-> c, write |-> <<got.val>>, err |-> "nil",
             rec |-> Iteration(line, TRUE, FALSE, FALSE, <<>>, <<>>, "none")]
       ELSE IF Len(parts) < 2
       THEN [cache |-> c, write |-> <<>>, err |-> "nil",
             rec |-> Iteration(line, FALSE, FALSE, FALSE, parts[1], <<>>, "index")]
       ELSE LET hex == binToHex(parts[2])
                newLine == parts[1] \o <<58>> \o hex.out
                set == CacheSet(c, line, newLine)
            IN IF hex.err # "nil"
               THEN [cache |-> c, write |-> <<>>, err |-> hex.err,
                     rec |-> Iteration(line, FALSE, TRUE, FALSE, parts[1], parts[2], "none")]
               ELSE IF set.panic
               THEN [cache |-> c, write |-> <<>>, err |-> "nil",
                     rec |-> Iteration(line, FALSE, TRUE, TRUE, parts[1], parts[2], "set")]
               ELSE [cache |-> set.cache, write |-> <<newLine>>, err |-> "nil",
                     rec |-> Iteration(line, FALSE, TRUE, TRUE, parts[1], parts[2], "none")]

\* One iteration's outcome applied to the process: a panic runs the deferred
\* calls and ends the process with status 2; an early return runs them and
\* hands err to main; otherwise writer.WriteString is called and its result
\* dropped (wok: whether the write succeeds; a failed writer accepts nothing more).
ApplyStep(res, wok) ==
    /\ scanned' = Append(scanned, res.rec)
    /\ cache' = res.cache
    /\ IF res.rec.fault # "none"
       THEN /\ panicked' = TRUE
            /\ pc' = "exited"
            /\ exitCode' = 2
            /\ handles' = RunDefers(handles)
            /\ UNCHANGED <<written, writerErr, ret>>
       ELSE IF res.err # "nil"
       THEN /\ ret' = res.err
            /\ pc' = "returned"
            /\ handles' = RunDefers(handles)
            /\ UNCHANGED <<panicked, exitCode, written, writerErr>>
       ELSE /\ written' = IF writerErr \/ ~wok THEN written ELSE written \o res.write
            /\ writerErr' = (writerErr \/ ~wok)
            /\ UNCHANGED <<panicked, pc, exitCode, handles, ret>>
    /\ UNCHANGED <<args, stdout, last, setLog, insertedAt>>
    /\ UNCHANGED codecVars

\* main, lines 147-150: too few arguments
MainUsage ==
    /\ pc = "main"
    /\ args.nargs < 4
    /\ stdout' = Append(stdout, "usage")
    /\ pc' = "exited"
    /\ exitCode' = 0
    /\ UNCHANGED <<args, handles, scanned, written, writerErr, ret>>
    /\ UNCHANGED cacheVars
    /\ UNCHANGED codecVars

\* main, lines 152-160: NewCache(cacheSize); make with a negative capacity panics
MainNewCache ==
    /\ pc = "main"
    /\ args.nargs >= 4
    /\ IF CacheSizeOf(args) < 0
       THEN /\ panicked' = TRUE
            /\ pc' = "exited"
            /\ exitCode' = 2
            /\ UNCHANGED cache
       ELSE /\ cache' = NewCache(CacheSizeOf(args))
            /\ pc' = "switch"
            /\ UNCHANGED <<panicked, exitCode>>
    /\ UNCHANGED <<args, handles, scanned, written, writerErr, ret, stdout>>
    /\ UNCHANGED <<last, setLog, insertedAt>>
    /\ UNCHANGED codecVars

\* main, lines 187-188: the default case of the switch
MainUnknownMode ==
    /\ pc = "switch"
    /\ ~Cached(args) /\ ~NonCached(args)
    /\ stdout' = Append(stdout, "unknown mode")
    /\ pc' = "exited"
    /\ exitCode' = 0
    /\ UNCHANGED <<args, handles, scanned, written, writerErr, ret>>
    /\ UNCHANGED cacheVars
    /\ UNCHANGED codecVars

\* main, lines 163-186: one of the four modes; the conversion is called
MainCallConvert ==
    /\ pc = "switch"
    /\ Cached(args) \/ NonCached(args)
    /\ pc' = "open"
    /\ UNCHANGED <<args, handles, scanned, written, writerErr, ret, exitCode, stdout>>
    /\ UNCHANGED cacheVars
    /\ UNCHANGED codecVars

\* OpenInput without its defer input.Close().
OpenInputNoDefer ==
    /\ pc = "open"
    /\ handles' = [handles EXCEPT !.input = "open"]
    /\ pc' = "create"
    /\ UNCHANGED <<args, scanned, written, writerErr, ret, exitCode, stdout>>
    /\ UNCHANGED cacheVars
    /\ UNCHANGED codecVars

\* lines 75-79 and 114-118: os.Open succeeds
OpenInput ==
    /\ pc = "open"
    /\ handles' = [handles EXCEPT !.input = "open", !.defers = Append(@, "input")]
    /\ pc' = "create"
    /\ UNCHANGED <<args, scanned, written, writerErr, ret, exitCode, stdout>>
    /\ UNCHANGED cacheVars
    /\ UNCHANGED codecVars

\* lines 75-78 and 114-117: os.Open fails
OpenFails ==
    /\ pc = "open"
    /\ ret' = "open error"
    /\ handles' = RunDefers(handles)
    /\ pc' = "returned"
    /\ UNCHANGED <<args, scanned, written, writerErr, exitCode, stdout>>
    /\ UNCHANGED cacheVars
    /\ UNCHANGED codecVars

\* lines 81-88 and 120-127: os.Create succeeds
CreateOutput ==
    /\ pc = "create"
    /\ handles' = [handles EXCEPT !.output = "open", !.defers = Append(@, "output")]
    /\ pc' = "loop"
    /\ UNCHANGED <<args, scanned, written, writerErr, ret, exitCode, stdout>>
    /\ UNCHANGED cacheVars
    /\ UNCHANGED codecVars

\* lines 81-84 and 120-123: os.Create fails
CreateFails ==
    /\ pc = "create"
    /\ ret' = "create error"
    /\ handles' = RunDefers(handles)
    /\ pc' = "returned"
    /\ UNCHANGED <<args, scanned, written, writerErr, exitCode, stdout>>
    /\ UNCHANGED cacheVars
    /\ UNCHANGED codecVars

\* convertWithCache, lines 90-107: scanner.Scan() returned line
ScanLineCached(line, wok) ==
    /\ pc = "loop"
    /\ Cached(args)
    /\ ApplyStep(CachedStep(cache, line), wok)

\* convertWithoutCache, lines 129-141: scanner.Scan() returned line
ScanLineNonCached(line, wok) ==
    /\ pc = "loop"
    /\ NonCached(args)
    /\ ApplyStep(PlainStep(cache, line), wok)

\* lines 108-109 and 142-143: the input has ended; writer.Flush() (fok: whether
\* it succeeds, its result is dropped), return scanner.Err() = nil
ScanEOF(fok) ==
    /\ pc = "loop"
    /\ writerErr' = (writerErr \/ ~fok)
    /\ ret' = "nil"
    /\ handles' = RunDefers(handles)
    /\ pc' = "returned"
    /\ UNCHANGED <<args, scanned, written, exitCode, stdout>>
    /\ UNCHANGED cacheVars
    /\ UNCHANGED codecVars

\* lines 108-109 and 142-143: reading failed; writer.Flush(), return scanner.Err()
ScanError(fok) ==
    /\ pc = "loop"
    /\ writerErr' = (writerErr \/ ~fok)
    /\ ret' = "scan error"
    /\ handles' = RunDefers(handles)
    /\ pc' = "returned"
    /\ UNCHANGED <<args, scanned, written, exitCode, stdout>>
    /\ UNCHANGED cacheVars
    /\ UNCHANGED codecVars

\* main, lines 165-168 (and the three like them): the error, if any, is
\* printed, then the time taken; main returns, so the status is 0
MainReport ==
    /\ pc = "returned"
    /\ stdout' = IF ret # "nil" THEN stdout \o <<"error", "took">> ELSE Append(stdout, "took")
    /\ pc' = "exited"
    /\ exitCode' = 0
    /\ UNCHANGED <<args, handles, scanned, written, writerErr, ret>>
    /\ UNCHANGED cacheVars
    /\ UNCHANGED codecVars

PipeStart ==
    /\ pc = "main"
    /\ handles = NoHandles
    /\ scanned = <<>>
    /\ written = <<>>
    /\ writerErr = FALSE
    /\ ret = "none"
    /\ exitCode = -1
    /\ stdout = <<>>
    /\ CacheIdle
    /\ CodecIdle

InitPipe ==
    /\ args \in ArgLists
    /\ PipeStart

NextPipe ==
    \/ MainUsage
    \/ MainNewCache
    \/ MainUnknownMode
    \/ MainCallConvert
    \/ OpenInput
    \/ OpenFails
    \/ CreateOutput
    \/ CreateFails
    \/ \E line \in LinePool, wok \in BOOLEAN :
          Len(scanned) < MaxLines /\ ScanLineCached(line, wok)
    \/ \E line \in LinePool, wok \in BOOLEAN :
          Len(scanned) < MaxLines /\ ScanLineNonCached(line, wok)
    \/ \E fok \in BOOLEAN : ScanEOF(fok)
    \/ \E fok \in BOOLEAN : ScanError(fok)
    \/ MainReport

\* Every run of the program: any arguments, any input file of up to MaxLines
\* lines, any I/O failure.
SpecPipe == InitPipe /\ [][NextPipe]_vars

InitHits ==
    /\ args \in {[nargs |-> 5, mode |-> "compress-cached", size |-> [ok |-> TRUE, n |-> k]] :
                    k \in 1..MaxCap}
    /\ PipeStart

NextHits ==
    \/ MainNewCache
    \/ MainCallConvert
    \/ OpenInput
    \/ CreateOutput
    \/ \E line \in LinePool : Len(scanned) < MaxHitLines /\ ScanLineCached(line, TRUE)
    \/ ScanEOF(TRUE)
    \/ MainReport

\* The cached runs with a capacity of at least 1 and no I/O failure, on input
\* files of up to MaxHitLines lines.
SpecHits == InitHits /\ [][NextHits]_vars

---------------------------------------------------------------------------
(* Properties of the cache, checked under Spec *)

Range(seq) == {seq[i] : i \in 1..Len(seq)}

NoDuplicates(seq) == \A i, j \in 1..Len(seq) : i # j => seq[i] # seq[j]

LogKeys == [i \in 1..Len(setLog) |-> setLog[i].key]

\* The cache a sequence of Set calls alone produces from cache c.
RECURSIVE Replay(_, _)
Replay(c, log) ==
    IF log = <<>> THEN c
    ELSE Replay(CacheSet(c, Head(log).key, Head(log).value).cache, Tail(log))

\* C1: with capacity C >= 1, after any sequence of Set and Get calls the number
\* of stored entries and the length of the key sequence are at most C.
C1_SizeAtMostCapacity ==
    cache.maxEntries >= 1 =>
        /\ Cardinality(DOMAIN cache.entries) <= cache.maxEntries
        /\ Len(cache.keys) <= cache.maxEntries

\* A full cache of capacity >= 2 that has already evicted a key.
C1_Witness ==
    /\ cache.maxEntries >= 2
    /\ Len(cache.keys) = cache.maxEntries
    /\ \E i \in 1..Len(setLog) : setLog[i].key \notin DOMAIN cache.entries

\* C2: with capacity >= 1, keys has no duplicates, its elements are exactly the
\* keys of entries, and the keys stand in the order of their most recent
\* insertion, oldest first.
C2_KeysMatchEntriesInOrder ==
    cache.maxEntries >= 1 =>
        /\ NoDuplicates(cache.keys)
        /\ Range(cache.keys) = DOMAIN cache.entries
        /\ \A i \in 1..Len(cache.keys) :
              /\ insertedAt[cache.keys[i]] \in 1..Len(setLog)
              /\ setLog[insertedAt[cache.keys[i]]].key = cache.keys[i]
        /\ \A i, j \in 1..Len(cache.keys) :
              i < j => insertedAt[cache.keys[i]] < insertedAt[cache.keys[j]]

\* A key that was set first, evicted and inserted again stands behind a key
\* inserted between its two insertions.
C2_Witness ==
    /\ Len(cache.keys) = 2
    /\ \E i \in 1..Len(setLog) :
          /\ setLog[i].key = cache.keys[2]
          /\ i < insertedAt[cache.keys[1]]

\* C3: from an empty cache of capacity C >= 1, after Set of n > C pairwise
\* distinct keys the cache holds exactly the last C of them, each with the value
\* it was inserted with, and Get on every earlier key returns not-found; for
\* n = C+1 exactly the first-inserted key is gone.
C3_FifoEviction ==
    LET C == cache.maxEntries
        n == Len(setLog)
    IN (C >= 1 /\ n > C /\ NoDuplicates(LogKeys)) =>
          /\ cache.keys = SubSeq(LogKeys, n - C + 1, n)
          /\ DOMAIN cache.entries = {LogKeys[i] : i \in (n - C + 1)..n}
          /\ \A i \in 1..(n - C) : ~CacheGet(cache, LogKeys[i]).found
          /\ \A i \in (n - C + 1)..n :
                CacheGet(cache, LogKeys[i]) = [val |-> setLog[i].value, found |-> TRUE]

\* Capacity 2, three distinct keys inserted, then a Get on the evicted first key.
C3_Witness ==
    /\ cache.maxEntries = 2
    /\ Len(setLog) = 3
    /\ NoDuplicates(LogKeys)
    /\ last = [op |-> "Get", key |-> setLog[1].key, value |-> "", val |-> "", found |-> FALSE]

\* C4: Set on a key already present changes nothing: not its value, not another
\* entry, not the key sequence; nothing is evicted and the key is not moved.
C4_SetPresentIsNoOp ==
    [][(last'.op = "Set" /\ last'.key \in DOMAIN cache.entries)
          => (cache' = cache /\ panicked' = panicked)]_vars

\* A Set on a present key of a full cache, with a value other than the stored one.
C4_Witness ==
    /\ last.op = "Set"
    /\ last.key \in DOMAIN cache.entries
    /\ cache.entries[last.key] # last.value
    /\ cache.maxEntries >= 1
    /\ Len(cache.keys) = cache.maxEntries
    /\ \E i \in 1..(Len(setLog) - 1) : setLog[i].key = last.key

\* C5: Get changes neither the mapping nor the key sequence, whether the key is
\* present or not; so the cache is the one the Set calls alone produce, however
\* many Get calls were made between them.
C5_GetHasNoSideEffects ==
    /\ [][last'.op = "Get" => cache' = cache]_vars
    /\ [](cache = Replay(NewCache(cache.maxEntries), setLog))

\* A Get that found its key in a full cache, followed later by an eviction.
C5_Witness ==
    /\ last.op = "Get"
    /\ last.found
    /\ last.key # cache.keys[Len(cache.keys)]
    /\ Len(cache.keys) = cache.maxEntries
    /\ cache.maxEntries >= 2
    /\ \E i \in 1..Len(setLog) : setLog[i].key \notin DOMAIN cache.entries

\* C6: a cache of capacity 0 never stores anything: every Set completes without
\* an index fault and leaves the cache empty, and every Get returns not-found.
C6_CapacityZeroIsNoOp ==
    cache.maxEntries = 0 =>
        /\ ~panicked
        /\ DOMAIN cache.entries = {}
        /\ cache.keys = <<>>
        /\ \A k \in Keys : ~CacheGet(cache, k).found

\* C17: an entry leaves the cache only in a Set step whose key is absent while
\* the cache holds capacity entries; such a step (capacity >= 1) removes exactly
\* the oldest key, keys[0], and appends the new key at the newest position; a
\* Set of an absent key below capacity removes nothing; and the number of
\* entries never decreases.
C17_EvictionOnlyOnFullInsert ==
    [][LET E == DOMAIN cache.entries
           F == DOMAIN cache'.entries
           AbsentSet == last'.op = "Set" /\ last'.key \notin E
           Evicts == /\ Len(cache.keys) >= 1
                     /\ E \ F = {cache.keys[1]}
                     /\ F = (E \ {cache.keys[1]}) \cup {last'.key}
                     /\ cache'.keys = Append(Tail(cache.keys), last'.key)
       IN /\ (E \ F # {}) => (AbsentSet /\ Cardinality(E) = cache.maxEntries /\ Evicts)
          /\ (AbsentSet /\ cache.maxEntries >= 1 /\ Cardinality(E) = cache.maxEntries) => Evicts
          /\ (AbsentSet /\ Cardinality(E) < cache.maxEntries) =>
                (E \subseteq F /\ cache'.keys = Append(cache.keys, last'.key))
          /\ Cardinality(F) >= Cardinality(E)]_vars

\* A Set has just evicted the first key ever stored and put its own key last.
C17_Witness ==
    /\ last.op = "Set"
    /\ Len(setLog) = cache.maxEntries + 1
    /\ Len(cache.keys) = cache.maxEntries
    /\ cache.maxEntries >= 2
    /\ cache.keys[Len(cache.keys)] = last.key
    /\ setLog[1].key \notin DOMAIN cache.entries
    /\ setLog[2].key = cache.keys[1]

---------------------------------------------------------------------------
(* Properties of the codec, checked under SpecCodec *)

IsBits(s) == \A i \in 1..Len(s) : s[i] \in BitChars

ValidHex(s) == Len(s) % 2 = 0 /\ \A i \in 1..Len(s) : s[i] \in HexChars

\* C7: for every bit string b whose length is a multiple of 8, the empty string
\* included, encode succeeds and decode(encode(b)) = b.
C7_DecodeEncodeIdentity ==
    (IsBits(input) /\ Len(input) % 8 = 0) =>
        /\ stage = "encoded" => first.err = "nil"
        /\ stage = "encDec" => second = [out |-> input, err |-> "nil"]

\* A 16-bit string holding both digits, encoded and decoded again.
C7_Witness ==
    /\ stage = "encDec"
    /\ IsBits(input)
    /\ Len(input) = 16
    /\ Range(input) = BitChars
    /\ second.out = input

\* C8: for every bit string b whose length is not a multiple of 8,
\* decode(encode(b)) has length 8*ceil(len(b)/8), b is a prefix of it, and every
\* character after the prefix is '0'.
C8_DecodeEncodePadsTrailingZeros ==
    (stage = "encDec" /\ IsBits(input) /\ Len(input) % 8 # 0) =>
        /\ second.err = "nil"
        /\ Len(second.out) = 8 * ((Len(input) + 7) \div 8)
        /\ SubSeq(second.out, 1, Len(input)) = input
        /\ \A i \in (Len(input) + 1)..Len(second.out) : second.out[i] = 48

\* C9: for every valid hex string h (even length, hex digits of either case),
\* decode succeeds and encode(decode(h)) = uppercase(h).
C9_EncodeDecodeUppercases ==
    ValidHex(input) =>
        /\ stage = "decoded" => first.err = "nil"
        /\ stage = "decEnc" => second = [out |-> ToUpper(input), err |-> "nil"]

\* A two-byte hex string with a lower-case digit, decoded and encoded again.
C9_Witness ==
    /\ stage = "decEnc"
    /\ ValidHex(input)
    /\ Len(input) = 4
    /\ \E i \in 1..Len(input) : input[i] \in 97..102
    /\ second.out = ToUpper(input)
    /\ second.out # input

\* C10: encode returns an error and no hex output whenever its input holds a
\* character other than '0' and '1'.
C10_EncodeRejectsNonBinary ==
    (stage = "encoded" /\ ~IsBits(input)) =>
        /\ first.err # "nil"
        /\ first.out = <<>>

\* The number a string of '0' and '1' digits writes in binary.
RECURSIVE BitsValue(_)
BitsValue(s) ==
    IF s = <<>> THEN 0
    ELSE 2 * BitsValue(SubSeq(s, 1, Len(s) - 1)) + (s[Len(s)] - 48)

UpperHexValue(c) == IF c \in 48..57 THEN c - 48 ELSE c - 55

\* C19: for every bit string b of length n, encode(b) succeeds with exactly
\* ceil(n/8)*2 characters, each one of 0-9 A-F, two per group of 8 bits from
\* the left (a full group's two digits write the group's value); the empty
\* input yields the empty output.
C19_EncodeShape ==
    (stage = "encoded" /\ IsBits(input)) =>
        /\ first.err = "nil"
        /\ Len(first.out) = 2 * ((Len(input) + 7) \div 8)
        /\ \A k \in 1..Len(first.out) : first.out[k] \in (48..57) \cup (65..70)
        /\ \A g \in 1..(Len(input) \div 8) :
              16 * UpperHexValue(first.out[2 * g - 1]) + UpperHexValue(first.out[2 * g])
                  = BitsValue(SubSeq(input, 8 * g - 7, 8 * g))
        /\ input = <<>> => first.out = <<>>

\* An 11-bit string encoded to four digits, the first of them a letter.
C19_Witness ==
    /\ stage = "encoded"
    /\ IsBits(input)
    /\ Len(input) = 11
    /\ Len(first.out) = 4
    /\ first.out[1] \in 65..70

---------------------------------------------------------------------------
(* Properties of the pipeline, checked under SpecPipe and SpecHits *)

HasColon(line) == \E i \in 1..Len(line) : line[i] = 58

FirstColon(line) == CHOOSE i \in 1..Len(line) : line[i] = 58 /\ \A j \in 1..(i - 1) : line[j] # 58

Converting == pc \in {"open", "create", "loop", "returned"} \/ (pc = "exited" /\ scanned # <<>>)

\* C11: in both pipelines a line without ':' makes the conversion return a
\* FormatError; it never causes an index fault.
C11_MissingColonIsFormatError ==
    \A i \in 1..Len(scanned) :
        ~HasColon(scanned[i].line) =>
            /\ ~panicked
            /\ scanned[i].fault = "none"
            /\ ret \notin {"none", "nil"}

\* C12: on input lines that hold a ':' and with a capacity >= 1, the cached
\* pipeline writes, line for line, what the non-cached loop body writes, and so
\* does the non-cached pipeline; neither panics.
C12_CachedEqualsNonCached ==
    (/\ Converting
     /\ Cached(args) => CacheSizeOf(args) >= 1
     /\ ~writerErr
     /\ \A i \in 1..Len(scanned) : HasColon(scanned[i].line)) =>
        /\ ~panicked
        /\ written = [i \in 1..Len(scanned) |-> PlainStep(NewCache(0), scanned[i].line).write[1]]

\* A cached run that wrote "4:41" for "4:01000001" twice, the second time from
\* the cache, with another line between the two.
C12_Witness ==
    /\ Cached(args)
    /\ pc = "returned"
    /\ ret = "nil"
    /\ Len(scanned) = 3
    /\ scanned[1].line = <<52, 58, 48, 49, 48, 48, 48, 48, 48, 49>>
    /\ scanned[3].line = scanned[1].line
    /\ scanned[2].line # scanned[1].line
    /\ scanned[3].hit
    /\ Len(written) = 3
    /\ written[1] = <<52, 58, 52, 49>>
    /\ written[3] = <<52, 58, 52, 49>>

Misses(i, j) == {m \in (i + 1)..(j - 1) : ~scanned[m].hit}

\* What every iteration of the cached loop does: a hit exactly when the whole
\* line is a key of the cache; on a hit the cached value is written, neither
\* binToHex nor Set is called and the cache is unchanged; on a miss that
\* completes the line is stored, as the newest key, with the line just written.
MissPopulationOnly ==
    [][(Len(scanned') = Len(scanned) + 1) =>
          LET it == scanned'[Len(scanned')]
          IN /\ it.hit <=> (it.line \in DOMAIN cache.entries)
             /\ it.hit =>
                   /\ ~it.encoded /\ ~it.setCalled
                   /\ cache' = cache
                   /\ written' = Append(written, cache.entries[it.line])
             /\ (~it.hit /\ it.fault = "none") =>
                   /\ it.encoded /\ it.setCalled
                   /\ written' # written
                   /\ it.line \in DOMAIN cache'.entries
                   /\ cache'.entries[it.line] = written'[Len(written')]
                   /\ cache'.keys[Len(cache'.keys)] = it.line]_vars

\* C13 as stated: misses populate the cache, hits leave it alone, and a line
\* identical to ANY earlier line is served from the cache whenever fewer than
\* capacity lines were inserted between the two.
C13_HitAfterAnyEarlierLine ==
    /\ MissPopulationOnly
    /\ [](\A i, j \in 1..Len(scanned) :
             (/\ i < j
              /\ scanned[i].line = scanned[j].line
              /\ Cardinality(Misses(i, j)) < cache.maxEntries) => scanned[j].hit)

\* C13, amended: misses populate the cache, hits leave it alone, and a line
\* identical to an earlier line that was a miss (the line's insertion) is
\* served from the cache whenever fewer than capacity lines were inserted
\* between the two; so is the second of two adjacent identical lines.
C13_HitAfterInsertion ==
    /\ MissPopulationOnly
    /\ [](\A i, j \in 1..Len(scanned) :
             (/\ i < j
              /\ scanned[i].line = scanned[j].line
              /\ ~scanned[i].hit
              /\ Cardinality(Misses(i, j)) < cache.maxEntries) => scanned[j].hit)
    /\ [](\A j \in 2..Len(scanned) :
             scanned[j - 1].line = scanned[j].line => scanned[j].hit)

\* Capacity 2: a line is inserted, one other line is inserted after it, and the
\* line is then served from the cache.
C13_Witness ==
    /\ cache.maxEntries = 2
    /\ Len(scanned) = 3
    /\ ~scanned[1].hit /\ ~scanned[2].hit
    /\ scanned[3].line = scanned[1].line
    /\ scanned[3].hit
    /\ Len(written) = 3
    /\ written[3] = written[1]

Succeeded == ret = "nil" /\ ~writerErr /\ ~panicked

\* C14: the process ends with a non-zero status on every failure and with
\* status zero only when the conversion succeeded.
C14_ExitStatusTellsFailure ==
    pc = "exited" => (exitCode = 0 <=> Succeeded)

\* C15: the size token is the text before the first ':' and the payload handed
\* to encode is everything after the first ':', later ':' included.
C15_SplitAtFirstColonOnly ==
    \A i \in 1..Len(scanned) :
        scanned[i].encoded =>
            /\ scanned[i].size = SubSeq(scanned[i].line, 1, FirstColon(scanned[i].line) - 1)
            /\ scanned[i].payload =
                  SubSeq(scanned[i].line, FirstColon(scanned[i].line) + 1, Len(scanned[i].line))

\* C16: the conversion returns a non-nil error whenever opening, creating,
\* reading, writing or flushing failed; it never returns success after a
\* failed write.
C16_IOFailureIsReturned ==
    (pc = "returned" /\ writerErr) => ret # "nil"

\* C18: once the conversion has returned, or ended in a panic, no file handle
\* it opened is still open.
C18_HandlesClosedOnExit ==
    pc \in {"returned", "exited"} =>
        /\ handles.input # "open"
        /\ handles.output # "open"
        /\ handles.defers = <<>>

\* The output file could not be created after the input was opened.
C18_Witness ==
    /\ pc = "returned"
    /\ ret = "create error"
    /\ handles.input = "closed"
    /\ handles.output = "none"

\* C20: in the cached pipeline every entry (k, v) of the cache has
\* v = parts[0] + ":" + binToHex(parts[1]) for the parts of k, the line the
\* non-cached loop body writes for k.
C20_CacheCoherence ==
    Cached(args) =>
        \A k \in DOMAIN cache.entries :
            /\ HasColon(k)
            /\ cache.entries[k] = Split(k)[1] \o <<58>> \o binToHex(Split(k)[2]).out
            /\ <<cache.entries[k]>> = PlainStep(NewCache(0), k).write

\* Capacity 1: a line was stored, evicted by another line and stored again.
C20_Witness ==
    /\ Cached(args)
    /\ cache.maxEntries = 1
    /\ Len(scanned) = 3
    /\ scanned[3].line = scanned[1].line
    /\ scanned[2].line # scanned[1].line
    /\ \A i \in 1..3 : ~scanned[i].hit /\ scanned[i].fault = "none"
    /\ DOMAIN cache.entries = {scanned[3].line}

===========================================================================
